---- MODULE Spec2Model ----
(***************************************************************************)
(* Model of the squid-orbit-simulator stepping core:                       *)
(*   - SimulationRun (src/src/satellite_state.rs): the clock, the latest   *)
(*     telemetry record and step();                                        *)
(*   - spawn_stepper_loop (src/src/ui/sim_background_worker.rs, and its    *)
(*     identical copy in src/src/ui/actions.rs): the worker thread that    *)
(*     batches step() calls and reports over an mpsc channel.              *)
(*                                                                         *)
(* Units.  Simulation time is an integer number of hours (an Instant is a  *)
(* count of clock ticks; one tick of the model is one hour).  Distances of *)
(* the satellite are metres, distances of the sun are megametres (1e6 m),  *)
(* wall-clock time is milliseconds.                                        *)
(*                                                                         *)
(* The collaborators step() calls (SGP4, the sun ephemeris and the frame   *)
(* rotations) are a deterministic function of the simulation time that the *)
(* model does not compute: `world` fixes, the first time an instant is     *)
(* evaluated, the propagator's return code and the two distances the       *)
(* sanity assertions look at, and returns the same answer thereafter.      *)
(***************************************************************************)
EXTENDS Integers, Sequences, FiniteSets, TLC

\* ---------------------------------------------------------------- bounds
MaxMaxHours == 4
MaxStepInterval == 2
MaxStepCalls == 4

\* ------------------------------------------------------ program constants
SIMULATION_MAX_UI_UPDATE_PERIOD_MS == 600
EARTH_RADIUS == 6378137
DEORBIT_ELEVATION_KM == 100
AU_MM == 149600
MAX_TF_TIME == 9

\* --------------------------------------------------- environment choices
\* TLE epochs (hours on the model's time axis).
EpochChoices == {0, 7}

\* Wall-clock cost of one step() call, in ms.
StepCostsMs == {0, 300, 600}

\* |r_sat| in metres: on the surface, 21.863 km up, exactly 100 km up,
\* 400 km up, exactly 5 Earth radii.
SatMagsM == {EARTH_RADIUS, 6400000, EARTH_RADIUS + 100000,
             EARTH_RADIUS + 400000, 5 * EARTH_RADIUS}

\* |r_sun| in Mm: exactly 0.9 AU, and 1 AU.
SunMagsMm == {134640, AU_MM}

SGP4Codes == {"SGP4Success", "SGP4ErrorPerturbEccen"}

EnvSet == [sgp4 : SGP4Codes, sat_mag_m : SatMagsM, sun_mag_mm : SunMagsMm]

\* ----------------------------------------------------------------- state
VARIABLES
    epoch,                \* initial.tle.epoch
    max_hours,            \* initial.simulation_settings.max_days * 24.0
    step_interval_hours,  \* initial.simulation_settings.step_interval_hours
    current_sim_time,     \* SimulationRun.current_sim_time
    latest_telemetry,     \* SimulationRun.latest_telemetry: <<>> is None, <<r>> is Some(r)
    lock_held,            \* the Mutex around the run is locked (by the worker)
    poisoned,             \* the Mutex is poisoned
    pc,                   \* position of the worker thread (or of the direct caller of step())
    outcome,              \* the worker's local `outcome`: <<>> before it is computed
    elapsed_ms,           \* real_time_start.elapsed()
    chan,                 \* messages delivered to the receiver, in delivery order
    tx_alive,             \* the worker still owns the Sender
    rx_alive,             \* the observer still owns the Receiver
    sent,                 \* every value the worker passed to tx.send, in program order
    records,              \* every record step() returned, in call order
    step_results,         \* how each step() call made so far ended, in call order
    world,                \* the collaborators' answers, by simulation time
    tf_log,               \* per step() call: the instants handed to sgp4 and to the frame rotations
    prev,                 \* <<>>, or what an earlier execution on the same initial state did
    calc_in,              \* arguments of the pure function under evaluation
    calc_out,             \* <<>>, or <<its result>>
    station,              \* <<>>, or <<a GroundStation>> (its ecef_cache: <<>> is unset)
    ecef_log,             \* per ecef_xyz_m() call: whether it computed, and what it returned
    is_running,           \* MyApp.is_running
    worker_rx,            \* MyApp.worker_rx is Some
    simulation_run,       \* MyApp.simulation_run is Some
    run_status,           \* MyApp.run_status
    app_latest_telemetry, \* MyApp.latest_telemetry: <<>> is None, <<r>> is Some(r)
    satellite             \* <<>>, or <<initial.satellite of the run started last>>

vars == <<epoch, max_hours, step_interval_hours, current_sim_time,
          latest_telemetry, lock_held, poisoned, pc, outcome, elapsed_ms,
          chan, tx_alive, rx_alive, sent, records, step_results, world,
          tf_log, prev, calc_in, calc_out, station, ecef_log, is_running,
          worker_rx, simulation_run, run_status, app_latest_telemetry,
          satellite>>

\* The ground station under study.
ground == <<station, ecef_log>>

\* The observer's fields (MyApp) and what it seeded the run with.
app == <<is_running, worker_rx, simulation_run, run_status,
         app_latest_telemetry, satellite>>

\* Variables no step of a run touches.
aside == <<prev, calc_in, calc_out, ground, app>>

settings == <<epoch, max_hours, step_interval_hours>>

\* Number of step() calls made so far.
step_calls == Len(step_results)

\* ------------------------------------------------------------ SimulationRun
hours_since_epoch == current_sim_time - epoch

Last(s) == s[Len(s)]

\* sgp4() reported a non-success code for the timestamp.
SGP4Failed(env) == env.sgp4 # "SGP4Success"

\* The two assert!s of the irradiance functions:
\*   sun_mag_m > 0.9 * 1.496e11 && sun_mag_m < 1.1 * 1.496e11
\*   sat_mag_m > EARTH_RADIUS && sat_mag_m < 5.0 * EARTH_RADIUS
SunSanityOk(env) ==
    /\ env.sun_mag_mm * 10 > 9 * AU_MM
    /\ env.sun_mag_mm * 10 < 11 * AU_MM

SatSanityOk(env) ==
    /\ env.sat_mag_m > EARTH_RADIUS
    /\ env.sat_mag_m < 5 * EARTH_RADIUS

SanityOk(env) == SunSanityOk(env) /\ SatSanityOk(env)

\* elevation_km < 100.0, with elevation_km = |r_km| - EARTH_RADIUS / 1000.
IsDeorbited(env) == env.sat_mag_m - EARTH_RADIUS < DEORBIT_ELEVATION_KM * 1000

\* step() that does not look at the propagator's return code.
StepKindIgnoringSgp4(env) == IF ~SanityOk(env) THEN "Panic" ELSE "Ok"

\* How a step() call at an instant with answers env ends.
StepKind(env) ==
    IF SGP4Failed(env) THEN "Err"
    ELSE IF ~SanityOk(env) THEN "Panic"
    ELSE "Ok"

\* The clock moved the wrong way.
AdvanceClockBack(t, step) == t - step

\* current_sim_time += Duration::from_hours(step_interval_hours)
AdvanceClock(t, step) == t + step

\* A record whose `time` is read after the clock advance.
TelemetryAfterAdvance(t, env, t_after) ==
    [time |-> t_after,
     hours_since_epoch |-> t_after - epoch,
     sat_mag_m |-> env.sat_mag_m,
     is_deorbited |-> IsDeorbited(env)]

\* A record whose hours_since_epoch is read before the clock advance.
TelemetryHoursBeforeAdvance(t, env, t_after) ==
    [time |-> t,
     hours_since_epoch |-> t - epoch,
     sat_mag_m |-> env.sat_mag_m,
     is_deorbited |-> IsDeorbited(env)]

\* The SimulationStateAtStep built at the end of step(): `time` is the
\* instant computed for, hours_since_epoch is read after the advance.
Telemetry(t, env, t_after) ==
    [time |-> t,
     hours_since_epoch |-> t_after - epoch,
     sat_mag_m |-> env.sat_mag_m,
     is_deorbited |-> IsDeorbited(env)]

\* The frame rotation that is not capped at the horizon.
TfTimeUnclamped(time) == time

\* `tf_time`: the instant handed to qteme2itrf, capped at max_tf_time.
TfTime(time) == IF time < MAX_TF_TIME THEN time ELSE MAX_TF_TIME

\* The instants one step() call at instant t hands to its collaborators:
\* sgp4 gets `time`; when sgp4 succeeded qteme2itrf gets `tf_time`, and the
\* two irradiance functions hand `time` to pos_gcrf and qgcrf2itrf.
FrameQueries(t, env) ==
    [sgp4_at |-> t,
     teme2itrf_at |-> IF SGP4Failed(env) THEN <<>> ELSE <<TfTime(t)>>,
     gcrf2itrf_at |-> IF SGP4Failed(env) THEN <<>> ELSE <<t>>]

\* The answers of the collaborators for instant t.
EnvAt(t) == IF t \in DOMAIN world THEN {world[t]} ELSE EnvSet

Remember(t, env) ==
    [x \in (DOMAIN world) \cup {t} |-> IF x = t THEN env ELSE world[x]]

\* ------------------------------------------------------------- StepOutcome
OkMsg(done, status, value, lt) ==
    [ok |-> TRUE, done |-> done, status |-> status, value |-> value,
     latest_telemetry |-> lt]

ErrMsg(text) ==
    [ok |-> FALSE, done |-> FALSE, status |-> text, value |-> 0,
     latest_telemetry |-> <<>>]

IsTerminal(m) == (~m.ok) \/ m.done

Max0(x) == IF x > 0 THEN x ELSE 0

InitRun(steps, maxes) ==
    /\ epoch \in EpochChoices
    /\ max_hours \in maxes
    /\ step_interval_hours \in steps
    /\ current_sim_time = epoch
    /\ latest_telemetry = <<>>
    /\ lock_held = FALSE
    /\ poisoned = FALSE
    /\ outcome = <<>>
    /\ elapsed_ms = 0
    /\ chan = <<>>
    /\ tx_alive = TRUE
    /\ rx_alive = TRUE
    /\ sent = <<>>
    /\ records = <<>>
    /\ step_results = <<>>
    /\ world = <<>>
    /\ tf_log = <<>>
    /\ prev = <<>>

\* No pure function is being evaluated on the side.
NoCall ==
    /\ calc_in = <<>>
    /\ calc_out = <<>>

\* No ground station is under study.
NoStation ==
    /\ station = <<>>
    /\ ecef_log = <<>>

\* What a status line shows: its text, the number it prints, and the error
\* text it quotes.
StatusLine(line, value, err) == [line |-> line, value |-> value, err |-> err]

\* MyApp::default()
NoApp ==
    /\ is_running = FALSE
    /\ worker_rx = FALSE
    /\ simulation_run = FALSE
    /\ run_status = StatusLine("", 0, "")
    /\ app_latest_telemetry = <<>>
    /\ satellite = <<>>

\* The state right after on_button_pressed_run spawned the worker: the
\* settings passed read_simulation_settings (max_days > 0, step > 0).
Init ==
    /\ InitRun(1..MaxStepInterval, 1..MaxMaxHours)
    /\ NoCall
    /\ NoStation
    /\ NoApp
    /\ pc = "outer"

\* ------------------------------------------------------ spawn_stepper_loop
\* The max-time test with > for >=.
ReachedMaxTimeStrict(hours, max_h) == hours > max_h

\* `if sim_run.hours_since_epoch() >= max_hours`
ReachedMaxTime(hours, max_h) == hours >= max_h

\* A max-time outcome that carries no record.
ReachedOutcomeNoTelemetry ==
    OkMsg(TRUE, "Reached max time", max_hours, <<>>)

\* The outcome built when the clock has reached max_hours.
ReachedOutcome ==
    OkMsg(TRUE, "Reached max time", max_hours, latest_telemetry)

\* The outcome built when step() returned a deorbited record:
\* deorbit_h = (telemetry.hours_since_epoch - step_interval_h).max(0.0)
DeorbitOutcome(tel, lt) ==
    OkMsg(TRUE, "Satellite deorbited at",
          Max0(tel.hours_since_epoch - step_interval_hours), lt)

\* A budget message that is never final.
BudgetDoneNever(lt, max_h) == FALSE

\* A budget message that always ends the run.
BudgetDoneAlways(lt, max_h) == TRUE

\* The outcome built when the batch's wall-clock budget has elapsed.
BudgetDone(lt, max_h) ==
    IF lt = <<>> THEN FALSE ELSE lt[1].hours_since_epoch >= max_h

BudgetOutcome(lt, max_h) ==
    IF lt = <<>>
    THEN OkMsg(BudgetDone(lt, max_h), "Sim running...", 0, lt)
    ELSE OkMsg(BudgetDone(lt, max_h), "Sim running... t =",
               lt[1].hours_since_epoch, lt)

\* The budget test with > for >=.
BudgetElapsedStrict(ms) == ms > SIMULATION_MAX_UI_UPDATE_PERIOD_MS

\* `real_time_start.elapsed().as_millis() >= SIMULATION_MAX_UI_UPDATE_PERIOD_MS`
BudgetElapsed(ms) == ms >= SIMULATION_MAX_UI_UPDATE_PERIOD_MS

\* The deorbit flag of the returned record is not looked at.
AfterStepPcAlwaysBudget(tel) == "budget"

\* Where the worker goes after step() returned Ok(tel).
AfterStepPc(tel) == IF tel.is_deorbited THEN "drop_guard" ELSE "budget"

\* done_now that is true for an Err only.
DoneNowOnlyErr(m) == ~m.ok

\* `done_now`: Ok(o) => o.done, Err(_) => true
DoneNow(m) == IF m.ok THEN m.done ELSE TRUE

\* A channel that hands the newest value over first.
DeliverFront(queue, m) == <<m>> \o queue

\* mpsc delivery: a sent value is queued behind the ones sent before it.
Deliver(queue, m) == Append(queue, m)

\* Top of the outer loop: take the wall-clock start and lock the run.
Lock ==
    /\ pc = "outer"
    /\ ~lock_held
    /\ elapsed_ms' = 0
    /\ IF poisoned
       THEN /\ sent' = Append(sent, ErrMsg("Poisoned mutex lock"))
            /\ chan' = IF rx_alive
                       THEN Deliver(chan, ErrMsg("Poisoned mutex lock"))
                       ELSE chan
            /\ pc' = "exited"
            /\ tx_alive' = FALSE
            /\ UNCHANGED lock_held
       ELSE /\ lock_held' = TRUE
            /\ pc' = "inner"
            /\ UNCHANGED <<sent, chan, tx_alive>>
    /\ UNCHANGED <<settings, aside, current_sim_time, latest_telemetry, poisoned,
                   outcome, rx_alive, records, step_results, world,
                   tf_log>>

\* Head of the inner loop: the max-time test.
CheckMaxTime ==
    /\ pc = "inner"
    /\ IF ReachedMaxTime(hours_since_epoch, max_hours)
       THEN /\ outcome' = <<ReachedOutcome>>
            /\ pc' = "drop_guard"
       ELSE /\ pc' = "step"
            /\ UNCHANGED outcome
    /\ UNCHANGED <<settings, aside, current_sim_time, latest_telemetry, lock_held,
                   poisoned, elapsed_ms, chan, tx_alive, rx_alive, sent,
                   records, step_results, world,
                   tf_log>>

\* `match sim_run.step()`: one whole step() call and the match on its result.
\* A failed assertion unwinds the thread: the guard is dropped poisoning
\* the mutex, and the Sender is dropped without a send.
WorkerStep ==
    /\ pc = "step"
    /\ \E env \in EnvAt(current_sim_time), cost \in StepCostsMs :
         LET t == current_sim_time
             t_after == AdvanceClock(t, step_interval_hours)
             tel == Telemetry(t, env, t_after)
         IN  /\ world' = Remember(t, env)
             /\ tf_log' = Append(tf_log, FrameQueries(t, env))
             /\ step_results' = Append(step_results, StepKind(env))
             /\ elapsed_ms' = elapsed_ms + cost
             /\ CASE StepKind(env) = "Err" ->
                       /\ outcome' = <<ErrMsg("SGP4 error")>>
                       /\ pc' = "drop_guard"
                       /\ UNCHANGED <<current_sim_time, latest_telemetry,
                                      records, lock_held, poisoned, tx_alive>>
                  [] StepKind(env) = "Panic" ->
                       /\ pc' = "panicked"
                       /\ lock_held' = FALSE
                       /\ poisoned' = TRUE
                       /\ tx_alive' = FALSE
                       /\ UNCHANGED <<current_sim_time, latest_telemetry,
                                      records, outcome>>
                  [] StepKind(env) = "Ok" ->
                       /\ current_sim_time' = t_after
                       /\ latest_telemetry' = <<tel>>
                       /\ records' = Append(records, tel)
                       /\ pc' = AfterStepPc(tel)
                       /\ outcome' = IF pc' = "drop_guard"
                                     THEN <<DeorbitOutcome(tel, <<tel>>)>>
                                     ELSE outcome
                       /\ UNCHANGED <<lock_held, poisoned, tx_alive>>
    /\ UNCHANGED <<settings, aside, chan, rx_alive, sent>>

\* Tail of the inner loop: the wall-clock budget test.
CheckBudget ==
    /\ pc = "budget"
    /\ IF BudgetElapsed(elapsed_ms)
       THEN /\ outcome' = <<BudgetOutcome(latest_telemetry, max_hours)>>
            /\ pc' = "drop_guard"
       ELSE /\ pc' = "inner"
            /\ UNCHANGED outcome
    /\ UNCHANGED <<settings, aside, current_sim_time, latest_telemetry, lock_held,
                   poisoned, elapsed_ms, chan, tx_alive, rx_alive, sent,
                   records, step_results, world,
                   tf_log>>

\* The guard kept until after the send.
DropGuardLate ==
    /\ pc = "drop_guard"
    /\ pc' = "send"
    /\ UNCHANGED <<settings, aside, current_sim_time, latest_telemetry,
                   lock_held, poisoned, outcome, elapsed_ms, chan, tx_alive,
                   rx_alive, sent, records, step_results, world, tf_log>>

\* `drop(guard)`
DropGuard ==
    /\ pc = "drop_guard"
    /\ lock_held' = FALSE
    /\ pc' = "send"
    /\ UNCHANGED <<settings, aside, current_sim_time, latest_telemetry, poisoned,
                   outcome, elapsed_ms, chan, tx_alive, rx_alive, sent,
                   records, step_results, world,
                   tf_log>>

\* A send whose failure is ignored (`let _ = tx.send(outcome)`).
SendIgnoringFailure ==
    /\ pc = "send"
    /\ sent' = Append(sent, outcome[1])
    /\ chan' = IF rx_alive THEN Deliver(chan, outcome[1]) ELSE chan
    /\ pc' = IF DoneNow(outcome[1]) THEN "exited" ELSE "outer"
    /\ tx_alive' = (pc' # "exited")
    /\ outcome' = <<>>
    /\ UNCHANGED <<settings, aside, current_sim_time, latest_telemetry,
                   lock_held, poisoned, elapsed_ms, rx_alive, records,
                   step_results, world, tf_log>>

\* `tx.send(outcome)` and the two breaks after it.  The send fails when the
\* receiver is gone.  Leaving the loop ends the thread and drops the Sender.
Send ==
    /\ pc = "send"
    /\ sent' = Append(sent, outcome[1])
    /\ IF rx_alive
       THEN /\ chan' = Deliver(chan, outcome[1])
            /\ pc' = IF DoneNow(outcome[1]) THEN "exited" ELSE "outer"
       ELSE /\ pc' = "exited"
            /\ UNCHANGED chan
    /\ tx_alive' = (pc' # "exited")
    /\ outcome' = <<>>
    /\ UNCHANGED <<settings, aside, current_sim_time, latest_telemetry, lock_held,
                   poisoned, elapsed_ms, rx_alive, records, step_results, world,
                   tf_log>>

\* The observer drops the Receiver (worker_rx = None, or the app goes away).
DropReceiver ==
    /\ rx_alive
    /\ rx_alive' = FALSE
    /\ UNCHANGED <<settings, aside, current_sim_time, latest_telemetry, lock_held,
                   poisoned, pc, outcome, elapsed_ms, chan, tx_alive, sent,
                   records, step_results, world,
                   tf_log>>

Next ==
    \/ Lock
    \/ CheckMaxTime
    \/ WorkerStep
    \/ CheckBudget
    \/ DropGuard
    \/ Send
    \/ DropReceiver

Spec == Init /\ [][Next]_vars

TypeOK ==
    /\ pc \in {"outer", "inner", "step", "budget", "drop_guard", "send",
               "exited", "panicked", "caller"}
    /\ Len(latest_telemetry) <= 1
    /\ Len(outcome) <= 1
    /\ step_calls <= MaxMaxHours + MaxStepCalls

\* ------------------------------------------------- step() called directly
\* A step() that advances the clock before it looks at the propagator's
\* return code.
CallerStepAdvancingFirst ==
    /\ pc = "caller"
    /\ step_calls < MaxStepCalls
    /\ \E env \in EnvAt(current_sim_time) :
         LET t == current_sim_time
             t_after == AdvanceClock(t, step_interval_hours)
             tel == Telemetry(t, env, t_after)
         IN  /\ world' = Remember(t, env)
             /\ tf_log' = Append(tf_log, FrameQueries(t, env))
             /\ step_results' = Append(step_results, StepKind(env))
             /\ current_sim_time' = t_after
             /\ CASE StepKind(env) = "Err" ->
                       UNCHANGED <<latest_telemetry, records, pc>>
                  [] StepKind(env) = "Panic" ->
                       /\ pc' = "panicked"
                       /\ UNCHANGED <<latest_telemetry, records>>
                  [] StepKind(env) = "Ok" ->
                       /\ latest_telemetry' = <<tel>>
                       /\ records' = Append(records, tel)
                       /\ UNCHANGED pc
    /\ UNCHANGED <<settings, aside, lock_held, poisoned, outcome, elapsed_ms, chan,
                   tx_alive, rx_alive, sent>>

\* A caller that owns the run and calls step() again and again, whatever
\* the previous call returned (an Err leaves the run usable; a failed
\* assertion unwinds the caller).
CallerStep ==
    /\ pc = "caller"
    /\ step_calls < MaxStepCalls
    /\ \E env \in EnvAt(current_sim_time) :
         LET t == current_sim_time
             t_after == AdvanceClock(t, step_interval_hours)
             tel == Telemetry(t, env, t_after)
         IN  /\ world' = Remember(t, env)
             /\ tf_log' = Append(tf_log, FrameQueries(t, env))
             /\ step_results' = Append(step_results, StepKind(env))
             /\ CASE StepKind(env) = "Err" ->
                       UNCHANGED <<current_sim_time, latest_telemetry,
                                   records, pc>>
                  [] StepKind(env) = "Panic" ->
                       /\ pc' = "panicked"
                       /\ UNCHANGED <<current_sim_time, latest_telemetry,
                                      records>>
                  [] StepKind(env) = "Ok" ->
                       /\ current_sim_time' = t_after
                       /\ latest_telemetry' = <<tel>>
                       /\ records' = Append(records, tel)
                       /\ UNCHANGED pc
    /\ UNCHANGED <<settings, aside, lock_held, poisoned, outcome, elapsed_ms, chan,
                   tx_alive, rx_alive, sent>>

\* Any run SimulationRun::new returns: new() checks nothing, so the step
\* interval may be zero or negative.
InitAnyRun ==
    /\ InitRun((0 - MaxStepInterval)..MaxStepInterval, {1})
    /\ NoCall
    /\ NoStation
    /\ NoApp
    /\ pc = "caller"

\* A run whose settings satisfy step_interval_hours > 0.
InitValidRun ==
    /\ InitRun(1..MaxStepInterval, {1})
    /\ NoCall
    /\ NoStation
    /\ NoApp
    /\ pc = "caller"

NextStep == CallerStep

SpecAnyRun == InitAnyRun /\ [][NextStep]_vars

SpecValidRun == InitValidRun /\ [][NextStep]_vars

\* ------------------------------------------- two executions, same input
\* A second execution of the worker on a run built by SimulationRun::new
\* from the same InitialSimulationState, started once the first has
\* stopped: the collaborators answer as before (`world`), only the
\* wall-clock cost of the steps is free to differ.  What the first
\* execution did is kept in `prev`.
SecondExecution ==
    /\ pc \in {"exited", "panicked"}
    /\ prev = <<>>
    /\ prev' = <<[records |-> records, step_results |-> step_results,
                  sent |-> sent, stopped_as |-> pc]>>
    /\ current_sim_time' = epoch
    /\ latest_telemetry' = <<>>
    /\ lock_held' = FALSE
    /\ poisoned' = FALSE
    /\ pc' = "outer"
    /\ outcome' = <<>>
    /\ elapsed_ms' = 0
    /\ chan' = <<>>
    /\ tx_alive' = TRUE
    /\ rx_alive' = TRUE
    /\ sent' = <<>>
    /\ records' = <<>>
    /\ step_results' = <<>>
    /\ tf_log' = <<>>
    /\ UNCHANGED <<settings, world, calc_in, calc_out, ground, app>>

\* Both executions keep their receiver connected.
NextTwoRuns ==
    \/ Lock
    \/ CheckMaxTime
    \/ WorkerStep
    \/ CheckBudget
    \/ DropGuard
    \/ Send
    \/ SecondExecution

\* The first execution starts as any run of the worker does; the epoch is
\* pinned, the protocol does not look at it.
InitTwoRuns ==
    /\ Init
    /\ epoch = 0

SpecTwoRuns == InitTwoRuns /\ [][NextTwoRuns]_vars

\* ------------------------------------------- the worker, observer attached
\* The worker of a run whose Receiver stays connected.  The worker is an OS
\* thread of its own: while it has a step to take it takes it.
NextConnected ==
    \/ Lock
    \/ CheckMaxTime
    \/ WorkerStep
    \/ CheckBudget
    \/ DropGuard
    \/ Send

InitConnected ==
    /\ Init
    /\ epoch = 0

SpecConnected ==
    InitConnected /\ [][NextConnected]_vars /\ WF_vars(NextConnected)

\* ------------------------------------------------------- the egui observer
MaxFormHours == 2

\* What the input form can hold when Run is pressed.  A numeric field is
\* <<>> when its text is empty or does not parse, <<v>> when it parses to v.
\* ground_station_err is <<>> when read_ground_station returns Ok, else
\* <<its error>>.  max_hours stands for max_days (24 model hours to a day).
\* Forms every field of which parses, with a TLE: the drag numbers may be
\* negative.
ParsedForms ==
    [ground_station_err : {<<>>},
     drag_coefficient : {<<-1>>, <<2>>},
     drag_area_m2 : {<<-1>>, <<1>>},
     max_hours : {<<h>> : h \in 1..MaxFormHours},
     step_interval_hours : {<<h>> : h \in 1..MaxStepInterval},
     tle_data : {TRUE}]

GoodForm ==
    [ground_station_err |-> <<>>, drag_coefficient |-> <<2>>,
     drag_area_m2 |-> <<1>>, max_hours |-> <<1>>,
     step_interval_hours |-> <<1>>, tle_data |-> TRUE]

\* GoodForm with one field, or two, that init_simulation_run refuses.
RefusedForms ==
    {[GoodForm EXCEPT !.ground_station_err = <<"'Latitude (deg)' is required">>],
     [GoodForm EXCEPT !.drag_coefficient = <<>>],
     [GoodForm EXCEPT !.drag_area_m2 = <<>>],
     [GoodForm EXCEPT !.max_hours = <<>>],
     [GoodForm EXCEPT !.max_hours = <<0>>],
     [GoodForm EXCEPT !.max_hours = <<-1>>],
     [GoodForm EXCEPT !.step_interval_hours = <<>>],
     [GoodForm EXCEPT !.step_interval_hours = <<0>>],
     [GoodForm EXCEPT !.tle_data = FALSE],
     [GoodForm EXCEPT !.max_hours = <<0>>, !.step_interval_hours = <<>>],
     [GoodForm EXCEPT !.drag_coefficient = <<-1>>, !.tle_data = FALSE]}

Forms == ParsedForms \cup RefusedForms

InitErr(text) ==
    [ok |-> FALSE, err |-> text, satellite |-> <<>>, max_hours |-> 0,
     step_interval_hours |-> 0]

\* read_satellite, then read_simulation_settings, then the TLE test, given
\* that read_ground_station returned Ok.
init_after_ground_station(form) ==
    IF form.drag_coefficient = <<>>
    THEN InitErr("Invalid number for 'Drag Coefficient'")
    ELSE IF form.drag_area_m2 = <<>>
    THEN InitErr("Invalid number for 'Drag Area'")
    ELSE IF form.max_hours = <<>>
    THEN InitErr("Invalid number for 'Max Days'")
    ELSE IF form.step_interval_hours = <<>>
    THEN InitErr("Invalid number for 'Step Interval'")
    ELSE IF form.max_hours[1] <= 0
    THEN InitErr("Max Days must be > 0")
    ELSE IF form.step_interval_hours[1] <= 0
    THEN InitErr("Step Interval (hours) must be > 0")
    ELSE IF ~form.tle_data
    THEN InitErr("No valid TLE available.")
    ELSE [ok |-> TRUE, err |-> "",
          satellite |-> <<[drag_coefficient |-> form.drag_coefficient[1],
                           drag_area_m2 |-> form.drag_area_m2[1]]>>,
          max_hours |-> form.max_hours[1],
          step_interval_hours |-> form.step_interval_hours[1]]

\* MyApp::init_simulation_run
init_simulation_run(form) ==
    IF form.ground_station_err # <<>>
    THEN InitErr(form.ground_station_err[1])
    ELSE init_after_ground_station(form)

\* The Run button: on_button_pressed_run, reachable while the button is
\* enabled (!is_running).
RunPressed ==
    /\ ~is_running
    /\ \E form \in Forms :
         LET r == init_simulation_run(form)
         IN  IF ~r.ok
             THEN /\ run_status' =
                       StatusLine("Error initializing simulation", 0, r.err)
                  /\ UNCHANGED <<settings, current_sim_time, latest_telemetry,
                                 lock_held, poisoned, pc, outcome, elapsed_ms,
                                 chan, tx_alive, rx_alive, sent, records,
                                 step_results, tf_log, is_running, worker_rx,
                                 simulation_run, satellite>>
             ELSE /\ max_hours' = r.max_hours
                  /\ step_interval_hours' = r.step_interval_hours
                  /\ satellite' = r.satellite
                  /\ current_sim_time' = epoch
                  /\ latest_telemetry' = <<>>
                  /\ lock_held' = FALSE
                  /\ poisoned' = FALSE
                  /\ simulation_run' = TRUE
                  /\ is_running' = TRUE
                  /\ run_status' = StatusLine("Starting simulation...", 0, "")
                  /\ chan' = <<>>
                  /\ tx_alive' = TRUE
                  /\ rx_alive' = TRUE
                  /\ worker_rx' = TRUE
                  /\ pc' = "outer"
                  /\ outcome' = <<>>
                  /\ elapsed_ms' = 0
                  /\ sent' = <<>>
                  /\ records' = <<>>
                  /\ step_results' = <<>>
                  /\ tf_log' = <<>>
                  /\ UNCHANGED epoch
    /\ UNCHANGED <<world, prev, calc_in, calc_out, ground,
                   app_latest_telemetry>>

\* The fields poll_worker works on.
PollState ==
    [run_status |-> run_status,
     app_latest_telemetry |-> app_latest_telemetry,
     is_running |-> is_running,
     simulation_run |-> simulation_run,
     should_make_worker_rx_null |-> FALSE]

\* The Err arm without `self.simulation_run = None`.
PollOneKeepingRun(st, m) ==
    IF m.ok
    THEN [st EXCEPT
            !.run_status = StatusLine(m.status, m.value, ""),
            !.app_latest_telemetry = m.latest_telemetry,
            !.is_running = IF m.done THEN FALSE ELSE @,
            !.simulation_run = IF m.done THEN FALSE ELSE @,
            !.should_make_worker_rx_null = IF m.done THEN TRUE ELSE @]
    ELSE [st EXCEPT
            !.run_status =
                StatusLine("Error during simulation step", 0, m.status),
            !.is_running = FALSE,
            !.should_make_worker_rx_null = TRUE]

\* The body of `for msg in rx.try_iter()` for one message.
PollOne(st, m) ==
    IF m.ok
    THEN [st EXCEPT
            !.run_status = StatusLine(m.status, m.value, ""),
            !.app_latest_telemetry = m.latest_telemetry,
            !.is_running = IF m.done THEN FALSE ELSE @,
            !.simulation_run = IF m.done THEN FALSE ELSE @,
            !.should_make_worker_rx_null = IF m.done THEN TRUE ELSE @]
    ELSE [st EXCEPT
            !.run_status =
                StatusLine("Error during simulation step", 0, m.status),
            !.is_running = FALSE,
            !.simulation_run = FALSE,
            !.should_make_worker_rx_null = TRUE]

\* The whole loop over the messages try_iter yields: everything queued, in
\* order.  A disconnected channel just ends the iteration.
RECURSIVE PollAll(_, _)
PollAll(st, msgs) ==
    IF msgs = <<>> THEN st
    ELSE PollAll(PollOne(st, Head(msgs)), Tail(msgs))

\* One poll_worker call (the first thing every update() does).
PollWorker ==
    /\ pc # "calc"
    /\ IF worker_rx
       THEN LET st == PollAll(PollState, chan)
            IN  /\ run_status' = st.run_status
                /\ app_latest_telemetry' = st.app_latest_telemetry
                /\ is_running' = st.is_running
                /\ simulation_run' = st.simulation_run
                /\ worker_rx' = ~st.should_make_worker_rx_null
                /\ rx_alive' = ~st.should_make_worker_rx_null
                /\ chan' = <<>>
       ELSE UNCHANGED <<run_status, app_latest_telemetry, is_running,
                        simulation_run, worker_rx, rx_alive, chan>>
    /\ UNCHANGED <<settings, current_sim_time, latest_telemetry, lock_held,
                   poisoned, pc, outcome, elapsed_ms, tx_alive, sent, records,
                   step_results, world, tf_log, prev, calc_in, calc_out,
                   ground, satellite>>

\* MyApp::default(): no run, no worker, no channel.
InitObserver ==
    /\ epoch = 0
    /\ max_hours = 1
    /\ step_interval_hours = 1
    /\ current_sim_time = epoch
    /\ latest_telemetry = <<>>
    /\ lock_held = FALSE
    /\ poisoned = FALSE
    /\ pc = "none"
    /\ outcome = <<>>
    /\ elapsed_ms = 0
    /\ chan = <<>>
    /\ tx_alive = FALSE
    /\ rx_alive = FALSE
    /\ sent = <<>>
    /\ records = <<>>
    /\ step_results = <<>>
    /\ world = <<>>
    /\ tf_log = <<>>
    /\ prev = <<>>
    /\ NoCall
    /\ NoStation
    /\ NoApp

NextObserver ==
    \/ RunPressed
    \/ PollWorker
    \/ Lock
    \/ CheckMaxTime
    \/ WorkerStep
    \/ CheckBudget
    \/ DropGuard
    \/ Send

\* egui keeps calling update() while a run is shown as running (poll_worker
\* asks for a repaint), and the worker is a thread of its own.
SpecObserver ==
    /\ InitObserver
    /\ [][NextObserver]_vars
    /\ WF_vars(PollWorker)
    /\ WF_vars(NextConnected)

\* ------------------------------------------ calculate_local_solar_time_hours
\* Times of day are in minutes (1440 to the day, 4 to a degree of
\* longitude); an Instant is in minutes counted from a midnight UTC.
MINUTES_PER_DAY == 1440

\* Rust's % on f64: the remainder takes the sign of the dividend.
RustRem(a, b) == IF a >= 0 THEN a % b ELSE 0 - ((0 - a) % b)

\* (time.as_jd() + 0.5).fract() * 24.0: the UTC time of day.
UtcTimeOfDay(time) == time % MINUTES_PER_DAY

\* utc_hours + longitude_deg / 15.0
LocalTimeUnwrapped(longitude_deg, time) ==
    UtcTimeOfDay(time) + longitude_deg * 4

\* The wrap without the + 24.0.
calculate_local_solar_time_no_shift(longitude_deg, time) ==
    RustRem(LocalTimeUnwrapped(longitude_deg, time), MINUTES_PER_DAY)

\* (local_time + 24.0) % 24.0
calculate_local_solar_time_hours(longitude_deg, time) ==
    RustRem(LocalTimeUnwrapped(longitude_deg, time) + MINUTES_PER_DAY,
            MINUTES_PER_DAY)

\* Longitudes ITRFCoord::longitude_deg can return, and instants around the
\* day boundaries.
LongitudeChoices == {-180, -179, -91, -1, 0, 1, 90, 179, 180}

InstantChoices == {0, 1, 719, 720, 1439, 1440, 1441, 2879}

LocalTimeCalls ==
    [fn : {"local_solar_time"}, longitude_deg : LongitudeChoices,
     time : InstantChoices]

\* ------------------------------------------------- the irradiance functions
SOLAR_CONSTANT_W_PER_M2 == 1361
SUN_RADIUS_KM == 695700

\* The geometry of one call: at `time` the Sun's ITRF position is on the
\* +x axis at sun_mag_mm, and the satellite is at sat_mag_m from the Earth's
\* centre, sun_angle_deg away from the Sun's direction (in the x-y plane).
\* Both functions look only at the lengths and the angle.
IrradianceSatMagsM == SatMagsM \cup {20000000, 31880000}

IrradianceSunMagsMm == SunMagsMm \cup {142120, 157080}

SunAngleChoices == {0, 30, 60, 89, 90, 91, 120, 150, 180}

IrradianceCalls ==
    [fn : {"irradiance"}, sat_mag_m : IrradianceSatMagsM,
     sun_mag_mm : IrradianceSunMagsMm, sun_angle_deg : SunAngleChoices]

\* cos_theta.clamp(-1.0, 1.0).acos(), in 1e-5 rad.
Theta(deg) ==
    CASE deg = 0 -> 0
      [] deg = 30 -> 52360
      [] deg = 60 -> 104720
      [] deg = 89 -> 155334
      [] deg = 90 -> 157080
      [] deg = 91 -> 158825
      [] deg = 120 -> 209440
      [] deg = 150 -> 261799
      [] deg = 180 -> 314159

\* The cosine and the sine of the angle, in thousandths.
CosMilli(deg) ==
    CASE deg = 0 -> 1000
      [] deg = 30 -> 866
      [] deg = 60 -> 500
      [] deg = 89 -> 17
      [] deg = 90 -> 0
      [] deg = 91 -> -17
      [] deg = 120 -> -500
      [] deg = 150 -> -866
      [] deg = 180 -> -1000

SinMilli(deg) ==
    CASE deg \in {0, 180} -> 0
      [] deg \in {30, 150} -> 500
      [] deg \in {60, 120} -> 866
      [] deg \in {89, 90, 91} -> 1000

\* alpha = (SUN_RADIUS / sun_mag_m).asin(), in 1e-5 rad.
Alpha(sun_mag_mm) ==
    CASE sun_mag_mm = 134640 -> 517
      [] sun_mag_mm = 142120 -> 490
      [] sun_mag_mm = 149600 -> 465
      [] sun_mag_mm = 157080 -> 443

\* beta = (WGS84_A / sat_mag_m).asin(), in 1e-5 rad.
Beta(sat_mag_m) ==
    CASE sat_mag_m = 6378137 -> 157080
      [] sat_mag_m = 6400000 -> 148812
      [] sat_mag_m = 6478137 -> 139486
      [] sat_mag_m = 6778137 -> 122553
      [] sat_mag_m = 20000000 -> 32458
      [] sat_mag_m = 31880000 -> 20143
      [] sat_mag_m = 31890685 -> 20136

\* f64::clamp(0.0, 1.0), in thousandths.
Clamp01(x) == IF x < 0 THEN 0 ELSE IF x > 1000 THEN 1000 ELSE x

\* The taper added instead of subtracted.
VisibleFractionAdded(delta, beta) ==
    LET ratio == (delta * 1000) \div (2 * beta)
    IN  1000 + Clamp01((ratio * ratio) \div 1000)

\* 1.0 - (delta / (2.0 * beta)).powi(2).clamp(0.0, 1.0), in thousandths.
VisibleFraction(delta, beta) ==
    LET ratio == (delta * 1000) \div (2 * beta)
    IN  1000 - Clamp01((ratio * ratio) \div 1000)

\* calculate_sun_irradiance_received_approx_w_per_m2, past its assert!s.
calculate_sun_irradiance_received_approx_w_per_m2(g) ==
    LET theta == Theta(g.sun_angle_deg)
        alpha == Alpha(g.sun_mag_mm)
        beta == Beta(g.sat_mag_m)
        delta == theta - (alpha - beta)
    IN  IF theta < alpha - beta THEN SOLAR_CONSTANT_W_PER_M2
        ELSE IF theta < alpha + beta
             THEN (VisibleFraction(delta, beta) * SOLAR_CONSTANT_W_PER_M2)
                      \div 1000
        ELSE 0

\* calculate_sun_irradiance_received_w_per_m2, past its assert!s.  Lengths
\* are in km, the two cone angles in 1e-6 rad.
calculate_sun_irradiance_received_w_per_m2(g) ==
    LET sat_mag_km == g.sat_mag_m \div 1000
        proj_length == (sat_mag_km * CosMilli(g.sun_angle_deg)) \div 1000
        perpendicular_dist == (sat_mag_km * SinMilli(g.sun_angle_deg)) \div 1000
        behind_sun_mm == (proj_length - g.sun_mag_mm * 1000) \div 1000
        theta_umbra ==
            ((EARTH_RADIUS \div 1000 - SUN_RADIUS_KM) * 1000) \div g.sun_mag_mm
        r_umbra == (behind_sun_mm * theta_umbra) \div 1000
        theta_penumbra ==
            ((EARTH_RADIUS \div 1000 + SUN_RADIUS_KM) * 1000) \div g.sun_mag_mm
        r_penumbra == (behind_sun_mm * theta_penumbra) \div 1000
        fraction ==
            ((perpendicular_dist - r_umbra) * 1000) \div (r_penumbra - r_umbra)
    IN  IF proj_length < 0 THEN SOLAR_CONSTANT_W_PER_M2
        ELSE IF perpendicular_dist < r_umbra THEN 0
        ELSE IF perpendicular_dist < r_penumbra
             THEN ((1000 - Clamp01(fraction)) * SOLAR_CONSTANT_W_PER_M2)
                      \div 1000
        ELSE SOLAR_CONSTANT_W_PER_M2

\* ------------------------------------------------------------ GroundStation
MaxEcefCalls == 3

\* The latitude range with its upper end left out (-90.0..90.0).
LatitudeOkExclusive(latitude_deg) == latitude_deg >= -90 /\ latitude_deg < 90

\* (-90.0..=90.0).contains(&latitude_deg)
LatitudeOk(latitude_deg) == latitude_deg >= -90 /\ latitude_deg <= 90

\* (-180.0..=180.0).contains(&longitude_deg)
LongitudeOk(longitude_deg) == longitude_deg >= -180 /\ longitude_deg <= 180

\* GroundStation::new: Err(text), or Ok(station) with an unset ecef_cache.
GroundStationNew(a) ==
    IF ~LatitudeOk(a.latitude_deg)
    THEN [ok |-> FALSE, station |-> <<>>,
          err |-> "Latitude must be between -90 and 90 degrees"]
    ELSE IF ~LongitudeOk(a.longitude_deg)
    THEN [ok |-> FALSE, station |-> <<>>,
          err |-> "Longitude must be between -180 and 180 degrees"]
    ELSE [ok |-> TRUE, err |-> "",
          station |-> <<[name |-> a.name,
                         latitude_deg |-> a.latitude_deg,
                         longitude_deg |-> a.longitude_deg,
                         elevation_m |-> a.elevation_m,
                         altitude_m |-> a.altitude_m,
                         min_elevation_deg |-> a.min_elevation_deg,
                         ecef_cache |-> <<>>]>>]

\* Arguments of GroundStation::new: latitudes and longitudes on, inside and
\* outside the ends of their ranges; elevation_m is an Option.
GroundStationArgs ==
    [fn : {"GroundStation::new"}, name : {"gs"},
     latitude_deg : {-91, -90, 0, 90, 91},
     longitude_deg : {-181, -180, -90, 0, 90, 180, 181},
     elevation_m : {<<>>, <<100>>}, altitude_m : {0, 50},
     min_elevation_deg : {10}]

\* The WGS-84 ellipsoid of nav_types, in metres.
WGS84_SEMI_MAJOR_M == 6378137
WGS84_SEMI_MINOR_M == 6356752

\* Cosine and sine of the multiples of 90 degrees.
CosDeg(d) == CASE d = 0 -> 1 [] d \in {-90, 90} -> 0 [] d \in {-180, 180} -> -1

SinDeg(d) == CASE d \in {-180, 0, 180} -> 0 [] d = 90 -> 1 [] d = -90 -> -1

\* ECEF::from(WGS84::from_degrees_and_meters(lat, lon, h)) on the equator
\* and at the poles: there the prime-vertical radius N is the semi-major
\* axis (cos lat # 0 only on the equator) and N (1 - e^2) is the semi-minor
\* axis (sin lat # 0 only at the poles).
Wgs84ToEcef(latitude_deg, longitude_deg, h) ==
    <<(WGS84_SEMI_MAJOR_M + h) * CosDeg(latitude_deg) * CosDeg(longitude_deg),
      (WGS84_SEMI_MAJOR_M + h) * CosDeg(latitude_deg) * SinDeg(longitude_deg),
      (WGS84_SEMI_MINOR_M + h) * SinDeg(latitude_deg)>>

\* Option::unwrap_or(0.0)
UnwrapOr0(opt) == IF opt = <<>> THEN 0 ELSE opt[1]

\* The closure handed to get_or_init.
ComputeEcef(gs) ==
    Wgs84ToEcef(gs.latitude_deg, gs.longitude_deg,
                UnwrapOr0(gs.elevation_m) + gs.altitude_m)

\* ecef_xyz_m that converts on every call and leaves the cache alone.
EcefXyzUncached ==
    /\ pc = "station"
    /\ Len(ecef_log) < MaxEcefCalls
    /\ ecef_log' = Append(ecef_log, [computed |-> TRUE,
                                     value |-> ComputeEcef(station[1])])
    /\ UNCHANGED <<settings, current_sim_time, latest_telemetry, lock_held,
                   poisoned, pc, outcome, elapsed_ms, chan, tx_alive, rx_alive,
                   sent, records, step_results, world, tf_log, prev, calc_in,
                   calc_out, station, app>>

\* One ecef_xyz_m() call: OnceCell::get_or_init runs the closure only when
\* the cell is unset, stores its value, and the call returns the stored one.
EcefXyz ==
    /\ pc = "station"
    /\ Len(ecef_log) < MaxEcefCalls
    /\ LET gs == station[1]
           unset == gs.ecef_cache = <<>>
           cell == IF unset THEN <<ComputeEcef(gs)>> ELSE gs.ecef_cache
       IN  /\ station' = <<[gs EXCEPT !.ecef_cache = cell]>>
           /\ ecef_log' = Append(ecef_log, [computed |-> unset,
                                            value |-> cell[1]])
    /\ UNCHANGED <<settings, current_sim_time, latest_telemetry, lock_held,
                   poisoned, pc, outcome, elapsed_ms, chan, tx_alive, rx_alive,
                   sent, records, step_results, world, tf_log, prev, calc_in,
                   calc_out, app>>

\* A station GroundStation::new returned, on the equator or at a pole.
InitStation ==
    /\ InitRun({1}, {1})
    /\ epoch = 0
    /\ NoCall
    /\ NoApp
    /\ pc = "station"
    /\ station \in {GroundStationNew(a).station :
                      a \in {b \in GroundStationArgs :
                               /\ GroundStationNew(b).ok
                               /\ b.latitude_deg \in {-90, 0, 90}}}
    /\ ecef_log = <<>>

NextStation == EcefXyz

SpecStation == InitStation /\ [][NextStation]_vars

\* ------------------------------------------------------------------ TleData
\* The 19 fields of TleData, which are the public fields of satkit::TLE.
TleFields ==
    {"name", "intl_desig", "sat_num", "desig_year", "desig_launch",
     "desig_piece", "epoch", "mean_motion_dot", "mean_motion_dot_dot",
     "bstar", "ephem_type", "element_num", "inclination", "raan", "eccen",
     "arg_of_perigee", "mean_anomaly", "mean_motion", "rev_num"}

TleTextFields == {"name", "intl_desig", "desig_piece"}

\* satkit::TLE::new(): every field at its default.
SatkitTleNew ==
    [f \in TleFields |-> IF f \in TleTextFields THEN "none" ELSE 0]

\* to_satkit_tle with the last assignment (rev_num) missing.
to_satkit_tle_without_rev_num(t) ==
    [SatkitTleNew EXCEPT
       !.name = t.name, !.intl_desig = t.intl_desig, !.sat_num = t.sat_num,
       !.desig_year = t.desig_year, !.desig_launch = t.desig_launch,
       !.desig_piece = t.desig_piece, !.epoch = t.epoch,
       !.mean_motion_dot = t.mean_motion_dot,
       !.mean_motion_dot_dot = t.mean_motion_dot_dot, !.bstar = t.bstar,
       !.ephem_type = t.ephem_type, !.element_num = t.element_num,
       !.inclination = t.inclination, !.raan = t.raan, !.eccen = t.eccen,
       !.arg_of_perigee = t.arg_of_perigee, !.mean_anomaly = t.mean_anomaly,
       !.mean_motion = t.mean_motion]

\* TleData::to_satkit_tle: a fresh satkit::TLE with the 19 fields assigned.
to_satkit_tle(t) ==
    [SatkitTleNew EXCEPT
       !.name = t.name, !.intl_desig = t.intl_desig, !.sat_num = t.sat_num,
       !.desig_year = t.desig_year, !.desig_launch = t.desig_launch,
       !.desig_piece = t.desig_piece, !.epoch = t.epoch,
       !.mean_motion_dot = t.mean_motion_dot,
       !.mean_motion_dot_dot = t.mean_motion_dot_dot, !.bstar = t.bstar,
       !.ephem_type = t.ephem_type, !.element_num = t.element_num,
       !.inclination = t.inclination, !.raan = t.raan, !.eccen = t.eccen,
       !.arg_of_perigee = t.arg_of_perigee, !.mean_anomaly = t.mean_anomaly,
       !.mean_motion = t.mean_motion, !.rev_num = t.rev_num]

\* TleData::from_satkit_tle: a TleData built field by field.
from_satkit_tle(tle) ==
    [name |-> tle.name, intl_desig |-> tle.intl_desig,
     sat_num |-> tle.sat_num, desig_year |-> tle.desig_year,
     desig_launch |-> tle.desig_launch, desig_piece |-> tle.desig_piece,
     epoch |-> tle.epoch, mean_motion_dot |-> tle.mean_motion_dot,
     mean_motion_dot_dot |-> tle.mean_motion_dot_dot, bstar |-> tle.bstar,
     ephem_type |-> tle.ephem_type, element_num |-> tle.element_num,
     inclination |-> tle.inclination, raan |-> tle.raan, eccen |-> tle.eccen,
     arg_of_perigee |-> tle.arg_of_perigee,
     mean_anomaly |-> tle.mean_anomaly, mean_motion |-> tle.mean_motion,
     rev_num |-> tle.rev_num]

\* Two TleData values that differ in every field, and from the defaults.
TleA ==
    [f \in TleFields |-> IF f \in TleTextFields THEN "A" ELSE 1]

TleB ==
    [f \in TleFields |-> IF f \in TleTextFields THEN "B" ELSE 2]

\* TleA, TleB, and TleA with any one or two fields taken from TleB.
TleChoices ==
    {[f \in TleFields |-> IF f \in {g, h} THEN TleB[f] ELSE TleA[f]] :
        g \in TleFields, h \in TleFields} \cup {TleA, TleB}

TleCalls == [fn : {"tle_round_trip"}, tle : TleChoices]

\* ------------------------------------------------- evaluating one function
\* step() calls both irradiance functions on the same vectors; either
\* assert! failing unwinds the call with no value.
EvalIrradiance ==
    /\ pc = "calc"
    /\ calc_out = <<>>
    /\ calc_in[1].fn = "irradiance"
    /\ calc_out' =
         IF SanityOk(calc_in[1])
         THEN <<[panicked |-> FALSE,
                 approx |-> calculate_sun_irradiance_received_approx_w_per_m2(calc_in[1]),
                 cone |-> calculate_sun_irradiance_received_w_per_m2(calc_in[1])]>>
         ELSE <<[panicked |-> TRUE, approx |-> 0, cone |-> 0]>>
    /\ UNCHANGED <<settings, current_sim_time, latest_telemetry, lock_held,
                   poisoned, pc, outcome, elapsed_ms, chan, tx_alive, rx_alive,
                   sent, records, step_results, world, tf_log, prev, calc_in,
                   ground, app>>

EvalLocalSolarTime ==
    /\ pc = "calc"
    /\ calc_out = <<>>
    /\ calc_in[1].fn = "local_solar_time"
    /\ calc_out' =
         <<[minutes |-> calculate_local_solar_time_hours(
                            calc_in[1].longitude_deg, calc_in[1].time)]>>
    /\ UNCHANGED <<settings, current_sim_time, latest_telemetry, lock_held,
                   poisoned, pc, outcome, elapsed_ms, chan, tx_alive, rx_alive,
                   sent, records, step_results, world, tf_log, prev, calc_in,
                   ground, app>>

EvalGroundStationNew ==
    /\ pc = "calc"
    /\ calc_out = <<>>
    /\ calc_in[1].fn = "GroundStation::new"
    /\ calc_out' = <<GroundStationNew(calc_in[1])>>
    /\ UNCHANGED <<settings, current_sim_time, latest_telemetry, lock_held,
                   poisoned, pc, outcome, elapsed_ms, chan, tx_alive, rx_alive,
                   sent, records, step_results, world, tf_log, prev, calc_in,
                   ground, app>>

\* from_satkit_tle(&t.to_satkit_tle())
EvalTleRoundTrip ==
    /\ pc = "calc"
    /\ calc_out = <<>>
    /\ calc_in[1].fn = "tle_round_trip"
    /\ calc_out' = <<from_satkit_tle(to_satkit_tle(calc_in[1].tle))>>
    /\ UNCHANGED <<settings, current_sim_time, latest_telemetry, lock_held,
                   poisoned, pc, outcome, elapsed_ms, chan, tx_alive, rx_alive,
                   sent, records, step_results, world, tf_log, prev, calc_in,
                   ground, app>>

\* One call of a pure function, its arguments drawn from the sets above.
InitCalc ==
    /\ InitRun({1}, {1})
    /\ epoch = 0
    /\ NoStation
    /\ NoApp
    /\ pc = "calc"
    /\ calc_in \in {<<c>> : c \in IrradianceCalls \cup LocalTimeCalls
                                  \cup GroundStationArgs \cup TleCalls}
    /\ calc_out = <<>>

NextCalc ==
    \/ EvalIrradiance
    \/ EvalLocalSolarTime
    \/ EvalGroundStationNew
    \/ EvalTleRoundTrip

SpecCalc == InitCalc /\ [][NextCalc]_vars

\* ================================================================ properties
IsErr(m) == ~m.ok
IsDone(m) == m.ok /\ m.done
IsDeorbitMsg(m) == m.ok /\ m.status = "Satellite deorbited at"
IsReachedMsg(m) == m.ok /\ m.status = "Reached max time"
IsRunningMsg(m) == m.ok /\ m.status \in {"Sim running...", "Sim running... t ="}

Count(s, P(_)) == Cardinality({i \in 1..Len(s) : P(s[i])})

WorkerStopped == pc \in {"exited", "panicked"}

\* A step() call returned a record with is_deorbited = true.
DeorbitReturned == \E i \in 1..Len(records) : records[i].is_deorbited

\* The propagator reported a non-success code at an instant step() evaluated.
PropagatorFailed == \E t \in DOMAIN world : SGP4Failed(world[t])

\* A sanity assertion failed at an instant step() evaluated.
SanityFailed ==
    \E t \in DOMAIN world : ~SGP4Failed(world[t]) /\ ~SanityOk(world[t])

\* C1: once a step() call of the worker has returned a deorbited record, the
\* worker makes no further step() call, the only thing it still does is hand
\* over one done = true 'Satellite deorbited at' message, and when it has
\* exited that message is the last one it emitted and the only done one.
C1_DeorbitFinalMessage ==
    /\ [](DeorbitReturned =>
            /\ pc \in {"drop_guard", "send", "exited"}
            /\ pc \in {"drop_guard", "send"} =>
                 /\ outcome # <<>>
                 /\ IsDeorbitMsg(outcome[1]) /\ outcome[1].done
                 /\ Count(sent, IsDone) = 0
            /\ pc = "exited" =>
                 /\ sent # <<>>
                 /\ IsDeorbitMsg(Last(sent)) /\ Last(sent).done
                 /\ Count(sent, IsDone) = 1)
    /\ [][DeorbitReturned => step_results' = step_results]_vars

C1_Witness ==
    /\ pc = "exited"
    /\ DeorbitReturned
    /\ Len(sent) >= 2
    /\ IsDeorbitMsg(Last(sent))

\* C2: when the worker thread has stopped and the receiver is still
\* connected, the channel holds at least one message and the last one
\* delivered has done = true or is an Err.
C2_LastMessageTerminal ==
    (WorkerStopped /\ rx_alive) => (chan # <<>> /\ IsTerminal(Last(chan)))

\* C3: when a sanity check failed during a step, the worker, once stopped,
\* has emitted an Err as its last message.
C3_SanityFailureIsErrMessage ==
    (SanityFailed /\ WorkerStopped) => (sent # <<>> /\ IsErr(Last(sent)))

\* C4: once the propagator has reported a non-success code, step() has
\* returned an error, the worker makes no further step() call, and it emits
\* exactly one Err message, as its last message, and exits.
C4_PropagationErrorIsOneErr ==
    /\ [](PropagatorFailed =>
            /\ Last(step_results) = "Err"
            /\ pc \in {"drop_guard", "send", "exited"}
            /\ pc \in {"drop_guard", "send"} =>
                 /\ outcome # <<>> /\ IsErr(outcome[1])
                 /\ Count(sent, IsErr) = 0
            /\ pc = "exited" =>
                 /\ sent # <<>> /\ IsErr(Last(sent))
                 /\ Count(sent, IsErr) = 1)
    /\ [][PropagatorFailed => step_results' = step_results]_vars

C4_Witness ==
    /\ pc = "exited"
    /\ PropagatorFailed
    /\ Len(sent) >= 2
    /\ IsErr(Last(sent))

\* C5 as claimed: every 'Sim running...' message has done = false.
C5_BudgetMessageNeverDone ==
    \A i \in 1..Len(sent) : IsRunningMsg(sent[i]) => ~sent[i].done

\* C5 as amended: a 'Sim running...' message has done = true exactly when
\* the record it carries has hours_since_epoch >= max_hours; after sending
\* one with done = false to a connected receiver the worker re-enters the
\* outer loop, and after any other one it exits.
C5_BudgetMessageDoneIffMaxTime ==
    /\ [](\A i \in 1..Len(sent) :
            IsRunningMsg(sent[i]) =>
              /\ sent[i].latest_telemetry # <<>>
              /\ sent[i].done =
                   (sent[i].latest_telemetry[1].hours_since_epoch >= max_hours))
    /\ [][(pc = "send" /\ pc' # "send" /\ IsRunningMsg(outcome[1])) =>
            pc' = IF rx_alive /\ ~outcome[1].done THEN "outer" ELSE "exited"]_vars

C5_Witness ==
    /\ Len(sent) >= 2
    /\ IsRunningMsg(sent[1]) /\ ~sent[1].done
    /\ \E j \in 2..Len(sent) : IsRunningMsg(sent[j]) /\ sent[j].done

\* C6: the worker calls step() only while hours_since_epoch() < max_hours;
\* when the test at the head of the inner loop finds the limit reached the
\* worker builds a done = true 'Reached max time' message carrying the run's
\* latest_telemetry, that message is the last it emits, and every record has
\* time < epoch + max_hours.
C6_StepOnlyBeforeMaxTime ==
    /\ [][step_results' # step_results => hours_since_epoch < max_hours]_vars
    /\ [][(pc = "inner" /\ pc' # "inner" /\ hours_since_epoch >= max_hours) =>
            /\ pc' = "drop_guard"
            /\ outcome' # <<>>
            /\ IsReachedMsg(outcome'[1]) /\ outcome'[1].done
            /\ outcome'[1].latest_telemetry = latest_telemetry]_vars
    /\ [](\A i \in 1..Len(sent) :
            IsReachedMsg(sent[i]) =>
              /\ sent[i].done
              /\ sent[i].latest_telemetry = latest_telemetry
              /\ i = Len(sent)
              /\ pc = "exited")
    /\ [](\A i \in 1..Len(records) : records[i].time < epoch + max_hours)

C6_Witness ==
    /\ pc = "exited"
    /\ sent # <<>>
    /\ IsReachedMsg(Last(sent))
    /\ Len(records) >= 2

\* C7: after the worker has sent a done = true or an Err message it sends
\* nothing more, makes no further step() call and has dropped its Sender;
\* at most one terminal message is emitted and it is the last one.
C7_TerminalMessageIsLast ==
    /\ [][Count(sent, IsTerminal) > 0 =>
            /\ sent' = sent
            /\ chan' = chan
            /\ step_results' = step_results]_vars
    /\ [](Count(sent, IsTerminal) > 0 =>
            /\ pc = "exited"
            /\ ~tx_alive
            /\ Count(sent, IsTerminal) = 1
            /\ IsTerminal(Last(sent)))
    /\ [](Count(chan, IsTerminal) > 0 =>
            /\ Count(chan, IsTerminal) = 1
            /\ IsTerminal(Last(chan)))

C7_Witness ==
    /\ pc = "exited"
    /\ ~tx_alive
    /\ Len(chan) >= 2
    /\ IsDone(Last(chan))

\* C8: the records carried by the successive Ok messages delivered have
\* non-decreasing hours_since_epoch, and the messages are delivered in the
\* order the worker sent them.
C8_MessagesOrdered ==
    /\ \A i, j \in 1..Len(chan) :
         (/\ i < j
          /\ chan[i].ok /\ chan[j].ok
          /\ chan[i].latest_telemetry # <<>>
          /\ chan[j].latest_telemetry # <<>>) =>
            chan[i].latest_telemetry[1].hours_since_epoch
              <= chan[j].latest_telemetry[1].hours_since_epoch
    /\ Len(chan) <= Len(sent)
    /\ chan = SubSeq(sent, 1, Len(chan))

C8_Witness ==
    /\ Len(chan) >= 3
    /\ chan[1].latest_telemetry[1].hours_since_epoch
         < chan[2].latest_telemetry[1].hours_since_epoch

\* C9 as claimed: on any run new() returns, no step() call decreases
\* hours_since_epoch(), and each successful one increases it by
\* step_interval_hours.
C9_ClockNeverDecreases ==
    [][/\ hours_since_epoch' >= hours_since_epoch
       /\ current_sim_time' >= current_sim_time
       /\ (step_results' # step_results /\ Last(step_results') = "Ok") =>
            hours_since_epoch' = hours_since_epoch + step_interval_hours]_vars

\* C9 as amended: on a run whose step_interval_hours is >= 0 no step() call
\* decreases hours_since_epoch() or current_sim_time; on any run a
\* successful step() changes hours_since_epoch() by exactly
\* step_interval_hours and a failed one leaves it unchanged.
C9_ClockMovesByStepInterval ==
    [][/\ step_interval_hours >= 0 =>
            /\ hours_since_epoch' >= hours_since_epoch
            /\ current_sim_time' >= current_sim_time
       /\ (step_results' # step_results /\ Last(step_results') = "Ok") =>
            hours_since_epoch' = hours_since_epoch + step_interval_hours
       /\ (step_results' # step_results /\ Last(step_results') # "Ok") =>
            hours_since_epoch' = hours_since_epoch]_vars

C9_Witness ==
    /\ pc = "caller"
    /\ step_interval_hours > 0
    /\ Len(records) >= 2
    /\ hours_since_epoch = Len(records) * step_interval_hours

\* C10: the successful step() calls on a fresh run produce exactly one
\* record each, the i-th record has time = epoch + (i-1)*step_interval_hours,
\* and the time fields are strictly increasing.
C10_RecordTimes ==
    /\ Len(records) = Count(step_results, LAMBDA r : r = "Ok")
    /\ \A i \in 1..Len(records) :
         /\ records[i].time = epoch + (i - 1) * step_interval_hours
         /\ i > 1 => records[i].time > records[i - 1].time

C10_Witness ==
    /\ pc = "caller"
    /\ Len(records) >= 3
    /\ records[3].time = epoch + 2 * step_interval_hours

\* C11: in every record step() returned, hours_since_epoch is the hours of
\* `time` since the epoch plus step_interval_hours; the record returned last
\* carries the value hours_since_epoch() has after the call, and it is the
\* run's latest_telemetry.
C11_RecordStraddlesAdvance ==
    /\ \A i \in 1..Len(records) :
         records[i].hours_since_epoch =
           (records[i].time - epoch) + step_interval_hours
    /\ records = <<>> => latest_telemetry = <<>>
    /\ records # <<>> =>
         /\ latest_telemetry = <<Last(records)>>
         /\ Last(records).hours_since_epoch = hours_since_epoch

C11_Witness ==
    /\ Len(records) >= 2
    /\ step_interval_hours # 0
    /\ latest_telemetry[1].hours_since_epoch # latest_telemetry[1].time - epoch

\* C13: once the receiver is gone the worker's next send fails, and a failed
\* send is the last thing the worker does: it has exited (not panicked),
\* exactly one send failed, and no step() call follows it; dropping the
\* receiver changes nothing of the run or of the worker's position.
SendFailed == Len(sent) > Len(chan)

C13_ReceiverDropStopsWorker ==
    /\ [](SendFailed =>
            /\ pc = "exited"
            /\ ~rx_alive
            /\ ~tx_alive
            /\ Len(sent) = Len(chan) + 1)
    /\ [][SendFailed => (step_results' = step_results /\ sent' = sent)]_vars
    /\ [][(sent' # sent /\ ~rx_alive) => (chan' = chan /\ pc' = "exited")]_vars
    /\ [][rx_alive' # rx_alive =>
            UNCHANGED <<pc, current_sim_time, latest_telemetry, records,
                        step_results, lock_held, poisoned>>]_vars

C13_Witness ==
    /\ SendFailed
    /\ pc = "exited"
    /\ ~IsTerminal(Last(sent))
    /\ hours_since_epoch < max_hours

\* C14: the worker holds the run's lock from the head of the inner loop to
\* the end of the batch, so during every step() call; it has released the
\* lock whenever it sends, and the lock is free only between batches and
\* after the worker stopped.
InBatch == pc \in {"inner", "step", "budget", "drop_guard"}

C14_LockHeldAcrossBatch ==
    /\ [](InBatch => lock_held)
    /\ [](pc \in {"outer", "send", "exited", "panicked"} => ~lock_held)
    /\ [][step_results' # step_results => lock_held]_vars
    /\ [][sent' # sent => (~lock_held /\ ~lock_held')]_vars

C14_Witness ==
    /\ pc = "send"
    /\ ~lock_held
    /\ Len(sent) >= 1
    /\ Len(records) >= 2

\* C15: the budget test follows every successful non-terminal step; the
\* worker never starts a step once the batch's budget has elapsed, so at
\* most the step during which it elapsed completes; it then leaves the
\* batch, and each batch ends with exactly one send.
C15_BudgetBoundsBatch ==
    /\ [](pc \in {"inner", "step"} =>
            elapsed_ms < SIMULATION_MAX_UI_UPDATE_PERIOD_MS)
    /\ [][(step_results' # step_results /\ Last(step_results') = "Ok"
           /\ ~Last(records').is_deorbited) => pc' = "budget"]_vars
    /\ [][(pc = "budget" /\ pc' # "budget"
           /\ elapsed_ms >= SIMULATION_MAX_UI_UPDATE_PERIOD_MS) =>
            (pc' = "drop_guard" /\ outcome' # <<>> /\ IsRunningMsg(outcome'[1]))]_vars
    /\ [][InBatch => sent' = sent]_vars
    /\ [][(pc = "send" /\ pc' # "send") =>
            (Len(sent') = Len(sent) + 1 /\ pc' \in {"outer", "exited"})]_vars

C15_Witness ==
    /\ pc = "outer"
    /\ Len(sent) >= 2
    /\ IsRunningMsg(Last(sent))
    /\ Len(records) >= 3

\* C20: the instant handed to the TEME->ITRF rotation is the simulation time
\* when that is before the horizon and the horizon otherwise, so never later
\* than the horizon; the propagator, the record's time and the clock advance
\* use the simulation time itself.
C20_TransformTimeClamped ==
    /\ Len(tf_log) = Len(step_results)
    /\ \A i \in 1..Len(tf_log) :
         /\ tf_log[i].teme2itrf_at # <<>> =>
              /\ tf_log[i].teme2itrf_at[1] <= MAX_TF_TIME
              /\ tf_log[i].sgp4_at < MAX_TF_TIME =>
                   tf_log[i].teme2itrf_at[1] = tf_log[i].sgp4_at
              /\ tf_log[i].sgp4_at >= MAX_TF_TIME =>
                   tf_log[i].teme2itrf_at[1] = MAX_TF_TIME
         /\ i <= Len(records) =>
              /\ tf_log[i].sgp4_at = epoch + (i - 1) * step_interval_hours
              /\ records[i].time = tf_log[i].sgp4_at
              /\ records[i].hours_since_epoch = i * step_interval_hours

C20_Witness ==
    \E i \in 1..Len(records) :
      /\ tf_log[i].sgp4_at > MAX_TF_TIME
      /\ tf_log[i].teme2itrf_at = <<MAX_TF_TIME>>
      /\ records[i].time > MAX_TF_TIME

\* C12: a second execution of the worker on the same initial state, free to
\* differ in the wall-clock cost of its steps, makes the same step() calls
\* with the same results and produces the same records as the first; when
\* both have exited, their final messages carry the same record.
IsPrefix(a, b) == Len(a) <= Len(b) /\ a = SubSeq(b, 1, Len(a))

C12_TimingDoesNotChangeTelemetry ==
    prev # <<>> =>
      /\ IsPrefix(records, prev[1].records)
      /\ IsPrefix(step_results, prev[1].step_results)
      /\ WorkerStopped =>
           /\ records = prev[1].records
           /\ step_results = prev[1].step_results
           /\ pc = prev[1].stopped_as
           /\ pc = "exited" =>
                Last(sent).latest_telemetry = Last(prev[1].sent).latest_telemetry

C12_Witness ==
    /\ prev # <<>>
    /\ pc = "exited"
    /\ Len(records) >= 2
    /\ Len(sent) # Len(prev[1].sent)
    /\ Last(sent).status # Last(prev[1].sent).status

\* ------------------------------------------------ the pure functions' claims
IrradianceReturned ==
    /\ calc_in # <<>>
    /\ calc_in[1].fn = "irradiance"
    /\ calc_out # <<>>

\* Sun on +x at 1 AU, satellite at (R_earth + 400 km, 0, 0).
SunSideCall ==
    [fn |-> "irradiance", sat_mag_m |-> EARTH_RADIUS + 400000,
     sun_mag_mm |-> AU_MM, sun_angle_deg |-> 0]

\* Sun on +x at 1 AU, satellite at (-R_earth - 400 km, 0, 0).
BehindEarthCall ==
    [fn |-> "irradiance", sat_mag_m |-> EARTH_RADIUS + 400000,
     sun_mag_mm |-> AU_MM, sun_angle_deg |-> 180]

InFullSunlight(w) ==
    /\ w >= SOLAR_CONSTANT_W_PER_M2 - 1
    /\ w <= SOLAR_CONSTANT_W_PER_M2 + 1

\* C16: with the Sun on +x at 1 AU and the satellite at
\* (R_earth + 400 km, 0, 0), on the Sun's side of the Earth-Sun line, both
\* irradiance functions return 1361 +/- 1 W/m^2.
C16_SunSideFullSunlight ==
    (IrradianceReturned /\ calc_in[1] = SunSideCall) =>
        /\ ~calc_out[1].panicked
        /\ InFullSunlight(calc_out[1].approx)
        /\ InFullSunlight(calc_out[1].cone)

\* C17: with the Sun on +x at 1 AU and the satellite at
\* (-R_earth - 400 km, 0, 0), directly behind the Earth, the cone-based
\* irradiance function returns 0.
C17_BehindEarthDark ==
    (IrradianceReturned /\ calc_in[1] = BehindEarthCall) =>
        /\ ~calc_out[1].panicked
        /\ calc_out[1].cone = 0

\* C18: for every satellite and Sun position that pass the sanity checks,
\* both irradiance functions return a value in [0, 1361] W/m^2.
C18_IrradianceInRange ==
    (IrradianceReturned /\ SanityOk(calc_in[1])) =>
        /\ ~calc_out[1].panicked
        /\ calc_out[1].approx \in 0..SOLAR_CONSTANT_W_PER_M2
        /\ calc_out[1].cone \in 0..SOLAR_CONSTANT_W_PER_M2

\* A call that passed the sanity checks and took the approximate model's
\* penumbra taper.
C18_Witness ==
    /\ IrradianceReturned
    /\ SanityOk(calc_in[1])
    /\ calc_out[1].approx > 0
    /\ calc_out[1].approx < SOLAR_CONSTANT_W_PER_M2
    /\ calc_out[1].cone = 0

\* C19: calculate_local_solar_time_hours returns a value in [0, 24) for
\* every longitude ITRFCoord::longitude_deg passes in (-180..180, both ends
\* included) and every instant, day boundaries included.
C19_LocalTimeInRange ==
    (/\ calc_in # <<>>
     /\ calc_in[1].fn = "local_solar_time"
     /\ calc_out # <<>>) =>
        /\ calc_out[1].minutes >= 0
        /\ calc_out[1].minutes < MINUTES_PER_DAY

\* Longitude -180 at midnight UTC: the unwrapped local time is -12 h and
\* the result is 12 h.
C19_Witness ==
    /\ calc_in # <<>>
    /\ calc_in[1].fn = "local_solar_time"
    /\ calc_in[1].longitude_deg = -180
    /\ calc_in[1].time = MINUTES_PER_DAY
    /\ calc_out # <<>>
    /\ calc_out[1].minutes = 720

\* ------------------------------------------------------- claims C21 .. C30
\* C25: for a run with finite max_days > 0 and step_interval_hours > 0 whose
\* receiver stays connected, the worker eventually sends a terminal message
\* and exits, having called step() at most
\* ceil(max_days * 24 / step_interval_hours) times.
C25_WorkerEndsWithTerminalMessage ==
    /\ <>(pc = "exited" /\ sent # <<>> /\ IsTerminal(Last(sent)))
    /\ [](step_calls > 0 =>
            (step_calls - 1) * step_interval_hours < max_hours)

\* C26: when step() returns an error because propagation failed,
\* hours_since_epoch() and latest_telemetry are the same after the call as
\* before it.
C26_FailedStepChangesNothing ==
    [][(/\ Len(step_results') = Len(step_results) + 1
        /\ Last(step_results') = "Err")
       => /\ current_sim_time' = current_sim_time
          /\ epoch' = epoch
          /\ latest_telemetry' = latest_telemetry]_vars

\* A failed call right after a successful one: the record and the clock
\* are still the ones the successful call left.
C26_Witness ==
    /\ pc = "caller"
    /\ step_results = <<"Ok", "Err">>
    /\ latest_telemetry = <<Last(records)>>
    /\ hours_since_epoch = Last(records).hours_since_epoch
    /\ hours_since_epoch # 0

\* C27: for a run with max_days > 0, every Ok message the worker sends
\* carries latest_telemetry = Some(record), the record returned by the most
\* recent step(); the fallbacks for a missing record are never taken.
C27_OkMessageCarriesLatestRecord ==
    /\ (outcome # <<>> /\ outcome[1].ok) =>
          /\ records # <<>>
          /\ Last(step_results) = "Ok"
          /\ outcome[1].latest_telemetry = <<Last(records)>>
          /\ outcome[1].status # "Sim running..."
    /\ \A i \in 1..Len(sent) :
          sent[i].ok =>
            /\ sent[i].latest_telemetry # <<>>
            /\ \E k \in 1..Len(records) :
                  sent[i].latest_telemetry = <<records[k]>>
            /\ sent[i].status # "Sim running..."

\* A max-time message and a budget message, each sent with the record of
\* the step before it.
C27_Witness ==
    /\ Len(sent) >= 2
    /\ IsRunningMsg(sent[1])
    /\ IsReachedMsg(Last(sent))
    /\ sent[1].latest_telemetry = <<records[1]>>
    /\ Last(sent).latest_telemetry = <<Last(records)>>
    /\ Len(records) >= 2

\* C30: every frame-rotation query made during a step() -- the TEME->ITRF
\* rotation and the GCRF->ITRF rotation inside both irradiance functions --
\* is evaluated at a time no later than max_tf_time.
C30_FrameQueriesWithinHorizon ==
    \A i \in 1..Len(tf_log) :
        /\ \A k \in 1..Len(tf_log[i].teme2itrf_at) :
              tf_log[i].teme2itrf_at[k] <= MAX_TF_TIME
        /\ \A k \in 1..Len(tf_log[i].gcrf2itrf_at) :
              tf_log[i].gcrf2itrf_at[k] <= MAX_TF_TIME

\* C21: for a given GroundStation the geodetic->ECEF computation is
\* performed at most once: the first ecef_xyz_m() call computes it from
\* (latitude, longitude, (elevation_m or 0) + altitude_m), and every later
\* call returns the identical triple.
C21_EcefComputedOnce ==
    (station # <<>> /\ ecef_log # <<>>) =>
        /\ ecef_log[1].computed
        /\ ecef_log[1].value =
              Wgs84ToEcef(station[1].latitude_deg, station[1].longitude_deg,
                          (IF station[1].elevation_m = <<>> THEN 0
                           ELSE station[1].elevation_m[1])
                              + station[1].altitude_m)
        /\ \A i \in 2..Len(ecef_log) :
              /\ ~ecef_log[i].computed
              /\ ecef_log[i].value = ecef_log[1].value

\* Three calls on a station at the north pole with no elevation given:
\* one conversion, three equal answers.
C21_Witness ==
    /\ station # <<>>
    /\ station[1].latitude_deg = 90
    /\ station[1].elevation_m = <<>>
    /\ station[1].altitude_m = 50
    /\ Len(ecef_log) >= 3
    /\ ecef_log[3].value = <<0, 0, WGS84_SEMI_MINOR_M + 50>>
    /\ station[1].ecef_cache = <<ecef_log[1].value>>

\* C22: GroundStation::new returns an error exactly when latitude is
\* outside [-90, 90] or longitude is outside [-180, 180] (the latitude error
\* when both are), and otherwise a station holding exactly the given fields
\* with an empty ECEF cache.
C22_GroundStationNewValidates ==
    (/\ calc_in # <<>>
     /\ calc_in[1].fn = "GroundStation::new"
     /\ calc_out # <<>>) =>
        LET a == calc_in[1]
            r == calc_out[1]
            lat_out == a.latitude_deg < -90 \/ a.latitude_deg > 90
            lon_out == a.longitude_deg < -180 \/ a.longitude_deg > 180
        IN  /\ r.ok <=> ~(lat_out \/ lon_out)
            /\ lat_out =>
                  r.err = "Latitude must be between -90 and 90 degrees"
            /\ (lon_out /\ ~lat_out) =>
                  r.err = "Longitude must be between -180 and 180 degrees"
            /\ ~r.ok => r.station = <<>>
            /\ r.ok =>
                  /\ Len(r.station) = 1
                  /\ r.station[1].name = a.name
                  /\ r.station[1].latitude_deg = a.latitude_deg
                  /\ r.station[1].longitude_deg = a.longitude_deg
                  /\ r.station[1].elevation_m = a.elevation_m
                  /\ r.station[1].altitude_m = a.altitude_m
                  /\ r.station[1].min_elevation_deg = a.min_elevation_deg
                  /\ r.station[1].ecef_cache = <<>>

\* Latitude and longitude both out of range: the latitude error.
C22_Witness ==
    /\ calc_in # <<>>
    /\ calc_in[1].fn = "GroundStation::new"
    /\ calc_in[1].latitude_deg = 91
    /\ calc_in[1].longitude_deg = -181
    /\ calc_out # <<>>
    /\ ~calc_out[1].ok
    /\ calc_out[1].err = "Latitude must be between -90 and 90 degrees"

\* C24: for every TleData value t, from_satkit_tle(&t.to_satkit_tle()) has
\* every one of its 19 fields equal to the corresponding field of t.
C24_TleRoundTrip ==
    (/\ calc_in # <<>>
     /\ calc_in[1].fn = "tle_round_trip"
     /\ calc_out # <<>>) =>
        /\ DOMAIN calc_out[1] = TleFields
        /\ \A f \in TleFields : calc_out[1][f] = calc_in[1].tle[f]

\* A round trip of a value whose name, epoch and rev_num are none of the
\* defaults of satkit::TLE::new().
C24_Witness ==
    /\ calc_in # <<>>
    /\ calc_in[1].fn = "tle_round_trip"
    /\ calc_in[1].tle.rev_num = 2
    /\ calc_in[1].tle.epoch = 2
    /\ calc_in[1].tle.name = "A"
    /\ calc_out # <<>>
    /\ calc_out[1].rev_num = 2
    /\ calc_out[1].name = "A"

\* C23: every Satellite that seeds a run started from the input form has
\* drag_coefficient >= 0 and drag_area_m2 >= 0; input violating either
\* bound is rejected at run initialisation and no run is started.
C23_SeedSatelliteNonNegative ==
    satellite # <<>> =>
        /\ satellite[1].drag_coefficient >= 0
        /\ satellite[1].drag_area_m2 >= 0

\* The two status lines a message leaves in run_status.
StatusOf(m) ==
    IF m.ok THEN StatusLine(m.status, m.value, "")
    ELSE StatusLine("Error during simulation step", 0, m.status)

C29_ExitedWorkerIsNoticed ==
    (pc \in {"exited", "panicked"}) ~> ~is_running
====
